---- MODULE Spec2Model ----
(***************************************************************************)
(* A model of rdmNames (src/rdmNames/__init__.py) and of the script        *)
(* src/generate_names.py: the weighted sampler, the name cache, the lazy   *)
(* loading of the name lists and the batched generation and writing.       *)
(***************************************************************************)
EXTENDS Integers, Sequences, FiniteSets, TLC

VARIABLES
    \* _get_random_name: its argument, its locals and what it returns
    names, target, idx, result, spc,
    \* _NameCache._cache, the files _load_names reads, and per thread: where
    \* it is in _load_names, its argument, its local list and what it got
    cache, srcFile, cpc, cfile, cnames, cret,
    \* how many calls each thread has made, and how many times each file was
    \* opened and parsed
    ccalls, parses,
    \* the three data files, and the module's globals
    dataFile, FIRST_NAMES, LAST_NAMES, _LOADED,
    \* one run of generate_names_to_file, of the generator generate_names or
    \* of the script: which, where it is, its arguments and its counter
    op, gpc, total, batch_size, remaining,
    \* the output file and what it held before the run, the generator object,
    \* the batches it has yielded and what the last next() on it gave
    outFile, oldFile, gen, batches, gnext,
    \* the lock _LOCK, and per thread: where it is, the operation it runs, the
    \* locals of _load_all_names, the lists it sampled from, what the
    \* operation gave and how many it has run
    lockOwner, tpc, top, male_names, female_names, seen, tret, tcalls,
    \* how many times the body of _load_all_names has run to success
    loads

samplerVars == <<names, target, idx, result, spc>>
cacheVars == <<cache, srcFile, cpc, cfile, cnames, cret, ccalls, parses>>
globalVars == <<dataFile, FIRST_NAMES, LAST_NAMES, _LOADED>>
genVars == <<op, gpc, total, batch_size, remaining, outFile, oldFile, gen, batches,
            gnext>>
loadVars == <<lockOwner, tpc, top, male_names, female_names, seen, tret, tcalls, loads>>
vars == <<samplerVars, cacheVars, globalVars, genVars, loadVars>>

(***************************************************************************)
(* Each specification runs one part of the program and leaves the others   *)
(* at rest.                                                                *)
(***************************************************************************)
\* the sampler at rest, in the specifications that do not run it
SamplerIdle ==
    /\ names = <<>>
    /\ target = 0
    /\ idx = 0
    /\ result = ""
    /\ spc = "off"

\* the cache at rest, in the specifications that do not run it
CacheIdle ==
    /\ cache = <<>>
    /\ srcFile = <<>>
    /\ cpc = <<>>
    /\ cfile = <<>>
    /\ cnames = <<>>
    /\ cret = <<>>
    /\ ccalls = <<>>
    /\ parses = <<>>

\* the generation at rest, in the specifications that do not run it
GenIdle ==
    /\ op = "none"
    /\ gpc = "off"
    /\ total = 0
    /\ batch_size = 0
    /\ remaining = 0
    /\ outFile = <<>>
    /\ oldFile = <<>>
    /\ gen = <<>>
    /\ batches = <<>>
    /\ gnext = "none"

\* the threads that load and sample, in the specifications without them
LoadIdle ==
    /\ lockOwner = "free"
    /\ tpc = <<>>
    /\ top = <<>>
    /\ male_names = <<>>
    /\ female_names = <<>>
    /\ seen = <<>>
    /\ tret = <<>>
    /\ tcalls = <<>>
    /\ loads = 0

\* the module's globals, in the specifications that do not use them
GlobalsIdle ==
    /\ dataFile = <<>>
    /\ FIRST_NAMES = <<>>
    /\ LAST_NAMES = <<>>
    /\ _LOADED = FALSE

(***************************************************************************)
(* Bounds of the model.                                                    *)
(***************************************************************************)
\* the longest table handed to the sampler
MaxEntries == 3
\* random.random() is drawn from {0, 1/RandSteps, ..., (RandSteps-1)/RandSteps}
RandSteps == 18
\* the calls of _load_names one thread makes
MaxCalls == 2
\* the largest total and the largest batch_size a run is given
MaxTotal == 5
MaxBatch == 3
\* the lines the output file holds before the run
MaxOld == 2
\* the operations one thread runs
MaxOps == 2

(***************************************************************************)
(* Python values the model needs.                                          *)
(***************************************************************************)
\* what indexing a list out of its range raises
IndexError == "IndexError"

Min(a, b) == IF a <= b THEN a ELSE b

\* seq[i] for a Python index i: 0-based, a negative i counting from the end;
\* PyInRange tells whether seq[i] exists, PyIndex is then its value
PyPos(seq, i) == IF i < 0 THEN i + Len(seq) + 1 ELSE i + 1
PyInRange(seq, i) == PyPos(seq, i) \in 1..Len(seq)
PyIndex(seq, i) == seq[PyPos(seq, i)]

(***************************************************************************)
(* The name cache and _load_names.                                         *)
(***************************************************************************)
Threads == {"t1", "t2"}
Filenames == {"dist.male.first", "dist.all.last"}

\* float(s) for the tokens of the model's files; ValueError for the others
ValueError == -1
Float(s) ==
    CASE s = "30.0" -> 30
      [] s = "60.0" -> 60
      [] s = "90.0" -> 90
      [] OTHER -> ValueError

\* a file is unreadable, or the list of its lines, each line the list of the
\* fields line.strip().split() gives
Unreadable == [readable |-> FALSE, lines |-> <<>>]
Text(ls) == [readable |-> TRUE, lines |-> ls]
SourceFiles ==
    { Unreadable,
      Text(<<>>),
      Text(<< <<"CID">> >>),
      Text(<< <<"BEA", "0.5", "60.0", "2">>, <<"ANA", "1.0", "30.0", "1">> >>),
      Text(<< <<"CID", "0.2", "90.0", "3">>, <<"BEA", "0.5">>,
              <<"ANA", "1.0", "30.0", "1">> >>),
      Text(<< <<"ANA", "1.0", "30.0", "1">>, <<"BEA", "0.5", "abc", "2">> >>) }

\* lines 69-74: the entries of the lines with at least 3 fields, in order
RECURSIVE ParseLines(_)
ParseLines(ls) ==
    IF ls = <<>> THEN <<>>
    ELSE LET parts == Head(ls)
         IN  IF Len(parts) >= 3
             THEN <<[name |-> parts[1], cum |-> Float(parts[3])]>>
                      \o ParseLines(Tail(ls))
             ELSE ParseLines(Tail(ls))

\* float(parts[2]) raises on some line with at least 3 fields
ParseFails(ls) ==
    \E i \in 1..Len(ls) : Len(ls[i]) >= 3 /\ Float(ls[i][3]) = ValueError

\* names.sort(key=lambda x: x[1]): a stable sort by cumulative weight
RECURSIVE InsertSorted(_, _)
InsertSorted(sorted, e) ==
    IF sorted = <<>> THEN <<e>>
    ELSE IF sorted[Len(sorted)].cum <= e.cum THEN Append(sorted, e)
    ELSE Append(InsertSorted(SubSeq(sorted, 1, Len(sorted) - 1), e),
                sorted[Len(sorted)])

RECURSIVE SortByCum(_)
SortByCum(tbl) ==
    IF tbl = <<>> THEN <<>>
    ELSE InsertSorted(SortByCum(SubSeq(tbl, 1, Len(tbl) - 1)), tbl[Len(tbl)])

\* what a call returned: a table, or the RuntimeError of line 83
Returned(tbl) == [ok |-> TRUE, value |-> tbl]
RuntimeError == [ok |-> FALSE, value |-> <<>>]

\* _name_cache.get(filename) is not None
InCache(f) == f \in DOMAIN cache

\* the test of line 62: the walrus binds get's value, and None and [] are falsy
CacheHit(f) == InCache(f) /\ cache[f] # <<>>

\* _NameCache(): one instance with an empty dictionary
CacheInit ==
    /\ SamplerIdle
    /\ LoadIdle
    /\ GlobalsIdle
    /\ GenIdle
    /\ cache = <<>>
    /\ srcFile \in [Filenames -> SourceFiles]
    /\ cpc = [t \in Threads |-> "idle"]
    /\ cfile = [t \in Threads |-> "dist.male.first"]
    /\ cnames = [t \in Threads |-> <<>>]
    /\ cret = [t \in Threads |-> Returned(<<>>)]
    /\ ccalls = [t \in Threads |-> 0]
    /\ parses = [f \in Filenames |-> 0]

\* lines 62-66: thread t calls _load_names(f) and looks the file up
LoadNamesLookup(t, f) ==
    /\ cpc[t] = "idle"
    /\ ccalls[t] < MaxCalls
    /\ ccalls' = [ccalls EXCEPT ![t] = @ + 1]
    /\ cfile' = [cfile EXCEPT ![t] = f]
    /\ \/ /\ CacheHit(f)
          /\ cret' = [cret EXCEPT ![t] = Returned(cache[f])]
          /\ UNCHANGED <<cpc, cnames>>
       \/ /\ ~CacheHit(f)
          /\ cpc' = [cpc EXCEPT ![t] = "parse"]
          /\ cnames' = [cnames EXCEPT ![t] = <<>>]
          /\ UNCHANGED cret
    /\ UNCHANGED <<cache, srcFile, parses>>
    /\ UNCHANGED <<samplerVars, globalVars, genVars, loadVars>>

\* lines 67-77 and 82-83: thread t opens the file, parses it and sorts
LoadNamesParse(t) ==
    /\ cpc[t] = "parse"
    /\ LET file == srcFile[cfile[t]]
       IN  \/ /\ ~file.readable \/ ParseFails(file.lines)
              /\ cpc' = [cpc EXCEPT ![t] = "idle"]
              /\ cret' = [cret EXCEPT ![t] = RuntimeError]
              /\ UNCHANGED <<cnames, parses>>
           \/ /\ file.readable /\ ~ParseFails(file.lines)
              /\ cnames' = [cnames EXCEPT ![t] = SortByCum(ParseLines(file.lines))]
              /\ parses' = [parses EXCEPT ![cfile[t]] = @ + 1]
              /\ cpc' = [cpc EXCEPT ![t] = "store"]
              /\ UNCHANGED cret
    /\ UNCHANGED <<cache, srcFile, cfile, ccalls>>
    /\ UNCHANGED <<samplerVars, globalVars, genVars, loadVars>>

\* _NameCache.set: self._cache[filename] = data
CacheSet(f, data) ==
    [g \in DOMAIN cache \cup {f} |-> IF g = f THEN data ELSE cache[g]]

\* lines 80-81: thread t stores its list in the cache and returns it
LoadNamesStore(t) ==
    /\ cpc[t] = "store"
    /\ cache' = CacheSet(cfile[t], cnames[t])
    /\ cret' = [cret EXCEPT ![t] = Returned(cnames[t])]
    /\ cpc' = [cpc EXCEPT ![t] = "idle"]
    /\ UNCHANGED <<srcFile, cfile, cnames, ccalls, parses>>
    /\ UNCHANGED <<samplerVars, globalVars, genVars, loadVars>>

CacheNext ==
    \E t \in Threads :
        \/ \E f \in Filenames : LoadNamesLookup(t, f)
        \/ LoadNamesParse(t)
        \/ LoadNamesStore(t)

SpecCache == CacheInit /\ [][CacheNext]_vars

\* C6: each source table is parsed from disk at most once per process, over
\* any sequence and any interleaving of _load_names calls.
C6_ParsedAtMostOnce == \A f \in Filenames : parses[f] <= 1

(***************************************************************************)
(* The weighted sampler, _get_random_name.                                 *)
(***************************************************************************)
\* the names and cumulative weights the model's tables are made of
NameTokens == {"Ana", "Bea", "Cid"}
Weights == {30, 60, 90, 120}
NameEntry == [name : NameTokens, cum : Weights]

\* every list of at most MaxEntries entries, sorted or not
Tables == UNION {[1..n -> NameEntry] : n \in 0..MaxEntries}

\* the factor of line 91: target = random.random() * 90
TargetFactor == 90

\* A target is kept as the integer k * 90 for the draw k / RandSteps, that is
\* in units of 1 / RandSteps; a cumulative weight c is c * RandSteps of them.
DrawTarget(k) == k * TargetFactor
TargetLess(t, c) == t < c * RandSteps

\* cumulatives = [c for _, c in names]
Cumulatives(tbl) == [i \in 1..Len(tbl) |-> tbl[i].cum]

\* bisect.bisect_right(a, x): lo, hi = 0, len(a); while lo < hi:
\*   mid = (lo + hi) // 2; if x < a[mid]: hi = mid; else: lo = mid + 1
RECURSIVE BisectLoop(_, _, _, _)
BisectLoop(a, x, lo, hi) ==
    IF lo < hi
    THEN LET mid == (lo + hi) \div 2
         IN  IF TargetLess(x, a[mid + 1])
             THEN BisectLoop(a, x, lo, mid)
             ELSE BisectLoop(a, x, mid + 1, hi)
    ELSE lo

\* bisect.bisect_left(a, x): as bisect_right, with the test a[mid] < x
TargetGreater(t, c) == c * RandSteps < t

RECURSIVE BisectLeftLoop(_, _, _, _)
BisectLeftLoop(a, x, lo, hi) ==
    IF lo < hi
    THEN LET mid == (lo + hi) \div 2
         IN  IF TargetGreater(x, a[mid + 1])
             THEN BisectLeftLoop(a, x, mid + 1, hi)
             ELSE BisectLeftLoop(a, x, lo, mid)
    ELSE lo

bisect_left(a, x) == BisectLeftLoop(a, x, 0, Len(a))

bisect_right(a, x) == BisectLoop(a, x, 0, Len(a))

\* the index without the clamp of line 100
UnclampedIndex(i, n) == i

\* min(idx, len(names) - 1)
ClampIndex(i, n) == Min(i, n - 1)

\* names[min(idx, len(names) - 1)][0]
SelectName(tbl, i) ==
    LET j == ClampIndex(i, Len(tbl))
    IN  IF PyInRange(tbl, j) THEN PyIndex(tbl, j).name ELSE IndexError

SamplerInit ==
    /\ CacheIdle
    /\ LoadIdle
    /\ GlobalsIdle
    /\ GenIdle
    /\ names \in Tables
    /\ target = 0
    /\ idx = 0
    /\ result = ""
    /\ spc = "call"

\* one call of _get_random_name(names), drawing random.random() = k / RandSteps
GetRandomName ==
    /\ spc = "call"
    /\ spc' = "returned"
    /\ UNCHANGED names
    /\ UNCHANGED <<cacheVars, globalVars, genVars, loadVars>>
    /\ \/ /\ names = <<>>
          /\ result' = ""
          /\ UNCHANGED <<target, idx>>
       \/ /\ names # <<>>
          /\ \E k \in 0..(RandSteps - 1) :
                /\ target' = DrawTarget(k)
                /\ idx' = bisect_right(Cumulatives(names), target')
                /\ result' = SelectName(names, idx')

SamplerNext == GetRandomName

SpecSampler == SamplerInit /\ [][SamplerNext]_vars

\* the table is sorted ascending by cumulative weight
IsSorted(tbl) == \A i \in 1..(Len(tbl) - 1) : tbl[i].cum <= tbl[i + 1].cum

\* the maximum cumulative weight of a non-empty table
MaxCum(tbl) == CHOOSE c \in {tbl[i].cum : i \in 1..Len(tbl)} :
                   \A j \in 1..Len(tbl) : tbl[j].cum <= c

(***************************************************************************)
(* Claims about the sampler (checked under SpecSampler).                   *)
(***************************************************************************)
\* the indices of the entries whose cumulative weight is >= the target
AtLeast(tbl, t) == {i \in 1..Len(tbl) : ~TargetGreater(t, tbl[i].cum)}
\* the indices of the entries whose cumulative weight is > the target
Above(tbl, t) == {i \in 1..Len(tbl) : TargetLess(t, tbl[i].cum)}
\* the name at the lowest index of S, and the last entry's when S is empty
FirstOrLast(tbl, S) ==
    IF S = {} THEN tbl[Len(tbl)].name
    ELSE tbl[CHOOSE i \in S : \A j \in S : i <= j].name

\* C3: in weighted mode the target is drawn from [0, W), W the maximum
\* cumulative weight of the table given: every target drawn for a non-empty
\* sorted table is below the table's maximum.
C3_TargetBelowTableMax ==
    (spc = "returned" /\ names # <<>> /\ IsSorted(names))
        => TargetLess(target, MaxCum(names))

\* C4 as stated: for a non-empty sorted table the sampler returns the name of
\* the first entry whose cumulative weight is >= the target, the last entry
\* when there is none.
C4_FirstAtLeast ==
    (spc = "returned" /\ names # <<>> /\ IsSorted(names))
        => result = FirstOrLast(names, AtLeast(names, target))

\* C4 as amended: for a non-empty sorted table the sampler returns the name
\* of the first entry whose cumulative weight is strictly greater than the
\* target, the last entry when there is none.
C4_FirstAbove ==
    (spc = "returned" /\ names # <<>> /\ IsSorted(names))
        => result = FirstOrLast(names, Above(names, target))

\* the spec's scenario: [(Ana,30),(Bea,60),(Cid,90)] with target 45 gives Bea
C4_Witness ==
    /\ spc = "returned"
    /\ names = <<[name |-> "Ana", cum |-> 30], [name |-> "Bea", cum |-> 60],
                 [name |-> "Cid", cum |-> 90]>>
    /\ target = 45 * RandSteps
    /\ result = "Bea"

\* C5: the sampler never fails and never indexes outside the table; it
\* returns "" exactly when the table is empty, and otherwise the name of an
\* entry of the table.
C5_Closure ==
    spc = "returned" =>
        /\ result # IndexError
        /\ (result = "") <=> (names = <<>>)
        /\ names # <<>> => \E i \in 1..Len(names) : names[i].name = result

\* a draw above every cumulative weight of an unsorted table: the search
\* index is past the end and the clamp selects the last entry
C5_Witness ==
    /\ spc = "returned"
    /\ Len(names) = 3
    /\ ~IsSorted(names)
    /\ idx = Len(names)
    /\ result = names[3].name

(***************************************************************************)
(* The data files and _load_all_names.                                     *)
(***************************************************************************)
FileKeys == {"first:male", "first:female", "last"}

\* str.capitalize() on the tokens of the model's data files
Capitalize(s) ==
    CASE s = "JAMES" -> "James"
      [] s = "MARY" -> "Mary"
      [] s = "SMITH" -> "Smith"

\* the lines of a data file that loads
GoodLines(k) ==
    CASE k = "first:male" -> << <<"JAMES", "3.318", "3.318", "1">> >>
      [] k = "first:female" -> << <<"MARY", "2.629", "2.629", "1">> >>
      [] k = "last" -> << <<"SMITH", "1.006", "1.006", "1">> >>

\* a data file is missing, empty, as shipped, or ends with a blank line
DataFileChoices(k) ==
    {Unreadable, Text(<<>>), Text(GoodLines(k)), Text(GoodLines(k) \o << <<>> >>)}

\* open() raises, or line.split()[0] raises IndexError on a blank line
ReadFails(file) ==
    ~file.readable \/ \E i \in 1..Len(file.lines) : file.lines[i] = <<>>

\* [line.split()[0].capitalize() for line in f]
ReadNames(file) == [i \in 1..Len(file.lines) |-> Capitalize(file.lines[i][1])]

\* the globals as a record, and the outcome of a call that may raise
Globals(first, last, loaded) == [first |-> first, last |-> last, loaded |-> loaded]
CurrentGlobals == Globals(FIRST_NAMES, LAST_NAMES, _LOADED)
Outcome(g, raised) == [g |-> g, raised |-> raised]

\* a loader that fills FIRST_NAMES as soon as the first-name files are read
LoadAllNamesEager(g, files) ==
    IF g.loaded THEN Outcome(g, FALSE)
    ELSE IF ReadFails(files["first:male"]) \/ ReadFails(files["first:female"])
    THEN Outcome(g, TRUE)
    ELSE LET g1 == [g EXCEPT !.first = ReadNames(files["first:male"])
                                        \o ReadNames(files["first:female"])]
         IN  IF ReadFails(files["last"]) THEN Outcome(g1, TRUE)
             ELSE Outcome([g1 EXCEPT !.last = ReadNames(files["last"]),
                                     !.loaded = TRUE], FALSE)

\* _load_all_names() run by one thread alone: the globals it leaves and
\* whether it raises
LoadAllNames(g, files) ==
    IF g.loaded THEN Outcome(g, FALSE)
    ELSE IF ReadFails(files["first:male"]) THEN Outcome(g, TRUE)
    ELSE IF ReadFails(files["first:female"]) THEN Outcome(g, TRUE)
    ELSE IF ReadFails(files["last"]) THEN Outcome(g, TRUE)
    ELSE LET male == ReadNames(files["first:male"])
             female == ReadNames(files["first:female"])
             g1 == [g EXCEPT !.last = ReadNames(files["last"])]
             g2 == [g1 EXCEPT !.first = male \o female]
         IN  Outcome([g2 EXCEPT !.loaded = TRUE], FALSE)

\* lines 139-141 and 177-180: the globals after the import, whose load
\* attempt swallows its failure
ImportGlobals(files) == LoadAllNames(Globals(<<>>, <<>>, FALSE), files).g

SetGlobals(g) ==
    /\ FIRST_NAMES' = g.first
    /\ LAST_NAMES' = g.last
    /\ _LOADED' = g.loaded

GlobalsInit ==
    /\ dataFile \in {f \in [FileKeys -> UNION {DataFileChoices(k) : k \in FileKeys}] :
                        \A k \in FileKeys : f[k] \in DataFileChoices(k)}
    /\ FIRST_NAMES = ImportGlobals(dataFile).first
    /\ LAST_NAMES = ImportGlobals(dataFile).last
    /\ _LOADED = ImportGlobals(dataFile).loaded

(***************************************************************************)
(* generate_names_batch, the generator generate_names,                     *)
(* generate_names_to_file and the script's generate_names.                 *)
(***************************************************************************)
\* the output file never holds more lines, nor a generator's consumer more
\* batches, than these: only a run that does not end reaches them
FileCap == 2 * MaxTotal + 1
BatchCap == MaxTotal + 1

\* a line of the output file: its text and the call that wrote it (0: the
\* file held it before the run).  A name is the pair f"{first} {last}", a
\* blank line the empty tuple.
Line(text, call) == [text |-> text, call |-> call]
OldLine == Line(<<"Old", "Line">>, 0)
BlankText == <<>>

\* np.random.choice(a, size=n) raises when a is empty and n > 0
ChoiceFails(a, n) == a = <<>> /\ n > 0

\* the values generate_names_batch(n) can return from the lists of g
BatchesOf(g, n) ==
    [1..n -> {<<g.first[i], g.last[j]>> : i \in 1..Len(g.first), j \in 1..Len(g.last)}]

\* lines 192-193 and 226-227, "if not _LOADED: _load_all_names()": the
\* globals it leaves and whether it raises
EnsureLoaded == IF _LOADED THEN Outcome(CurrentGlobals, FALSE)
                ELSE LoadAllNames(CurrentGlobals, dataFile)

\* generate_names_batch(n) raises: the load's RuntimeError, or numpy's
\* ValueError
BatchRaises(n) ==
    \/ EnsureLoaded.raised
    \/ ChoiceFails(EnsureLoaded.g.first, n)
    \/ ChoiceFails(EnsureLoaded.g.last, n)

\* f.write('\n'.join(names) + '\n'): the lines the text adds to the file; an
\* empty batch writes one blank line
WrittenLines(batch) ==
    IF batch = <<>> THEN <<Line(BlankText, 1)>>
    ELSE [i \in 1..Len(batch) |-> Line(batch[i], 1)]

\* open(output_file, 'a'): the content is kept
OpenAppend(content) == content

\* an open for writing that does not truncate
OpenWriteKeeping(content) == content

\* open(output_file, 'w'): the content is dropped
OpenWrite(content) == <<>>

\* current_batch = batch_size
FullBatch(bs, rem) == bs

\* current_batch = min(batch_size, remaining)
CurrentBatch(bs, rem) == Min(bs, rem)

\* generate_names(total, batch_size): the generator object, its body not started
NewGenerator(tot, bs) ==
    [state |-> "created", total |-> tot, batch_size |-> bs,
     remaining |-> 0, current_batch |-> 0]

\* remaining as the loop test of line 212 sees it when next() resumes the
\* body: set by line 211 on the first next(), decremented by line 215 after
\* a yield
GenRemaining ==
    IF gen.state = "created" THEN gen.total ELSE gen.remaining - gen.current_batch

GenRunning == gen.state \in {"created", "suspended"}

\* next(gen) yields batch b
GenYields(b) ==
    /\ GenRunning
    /\ GenRemaining > 0
    /\ ~BatchRaises(CurrentBatch(gen.batch_size, GenRemaining))
    /\ b \in BatchesOf(EnsureLoaded.g, CurrentBatch(gen.batch_size, GenRemaining))
    /\ gen' = [gen EXCEPT !.state = "suspended", !.remaining = GenRemaining,
                          !.current_batch = CurrentBatch(gen.batch_size, GenRemaining)]
    /\ SetGlobals(EnsureLoaded.g)

\* next(gen) raises what generate_names_batch raised; the generator is finished
GenRaises ==
    /\ GenRunning
    /\ GenRemaining > 0
    /\ BatchRaises(CurrentBatch(gen.batch_size, GenRemaining))
    /\ gen' = [gen EXCEPT !.state = "done", !.remaining = GenRemaining]
    /\ SetGlobals(EnsureLoaded.g)

\* next(gen) leaves the loop: StopIteration
GenStops ==
    /\ GenRunning
    /\ GenRemaining <= 0
    /\ gen' = [gen EXCEPT !.state = "done", !.remaining = GenRemaining]
    /\ UNCHANGED <<FIRST_NAMES, LAST_NAMES, _LOADED>>

GenInit ==
    /\ SamplerIdle
    /\ LoadIdle
    /\ CacheIdle
    /\ GlobalsInit
    /\ op = "none"
    /\ gpc = "idle"
    /\ total = 0
    /\ batch_size = 0
    /\ remaining = 0
    /\ outFile \in {[i \in 1..n |-> OldLine] : n \in 0..MaxOld}
    /\ oldFile = outFile
    /\ gen = NewGenerator(0, 0)
    /\ batches = <<>>
    /\ gnext = "none"

\* the environment puts right a data file that could not be loaded: before
\* the run of a generation, at any moment among the threads
DataFileRestored(k) ==
    /\ gpc \in {"idle", "off"}
    /\ ReadFails(dataFile[k])
    /\ dataFile' = [dataFile EXCEPT ![k] = Text(GoodLines(k))]
    /\ UNCHANGED <<FIRST_NAMES, LAST_NAMES, _LOADED>>
    /\ UNCHANGED <<samplerVars, cacheVars, loadVars, genVars>>

\* gen = generate_names(tot, bs): nothing of the body runs yet
GenCreate(tot, bs) ==
    /\ gpc = "idle"
    /\ op' = "generate_names"
    /\ gpc' = "iterating"
    /\ total' = tot
    /\ batch_size' = bs
    /\ gen' = NewGenerator(tot, bs)
    /\ UNCHANGED <<remaining, outFile, batches, gnext, oldFile>>
    /\ UNCHANGED <<samplerVars, cacheVars, loadVars, globalVars>>

\* next(gen) by the generator's consumer
GenNext ==
    /\ gpc = "iterating"
    /\ \/ /\ Len(batches) < BatchCap
          /\ \E b \in BatchesOf(EnsureLoaded.g, CurrentBatch(gen.batch_size, GenRemaining)) :
                /\ GenYields(b)
                /\ batches' = Append(batches, b)
          /\ gnext' = "batch"
       \/ /\ GenRaises
          /\ gnext' = "raised"
          /\ UNCHANGED batches
       \/ /\ GenStops
          /\ gnext' = "StopIteration"
          /\ UNCHANGED batches
       \/ /\ gen.state = "done"
          /\ gnext' = "StopIteration"
          /\ UNCHANGED <<gen, batches, FIRST_NAMES, LAST_NAMES, _LOADED>>
    /\ UNCHANGED <<op, gpc, total, batch_size, remaining, outFile, oldFile, dataFile>>
    /\ UNCHANGED <<samplerVars, cacheVars, loadVars>>

\* lines 226-238: generate_names_to_file(tot, output_file, bs) up to the
\* first loop: it loads the names when they are not, raising if that fails,
\* and opens the file for writing
ToFileCall(tot, bs) ==
    /\ gpc = "idle"
    /\ op' = "generate_names_to_file"
    /\ total' = tot
    /\ batch_size' = bs
    /\ LET load == EnsureLoaded
       IN  /\ SetGlobals(load.g)
           /\ \/ /\ load.raised
                 /\ gpc' = "raised"
                 /\ UNCHANGED <<remaining, outFile>>
              \/ /\ ~load.raised
                 /\ gpc' = "write_loop"
                 /\ outFile' = OpenWrite(outFile)
                 /\ remaining' = tot
    /\ UNCHANGED <<gen, batches, gnext, dataFile, oldFile>>
    /\ UNCHANGED <<samplerVars, cacheVars, loadVars>>

\* lines 239-243: one iteration of the first loop
ToFileWriteBatch ==
    /\ gpc = "write_loop"
    /\ remaining > 0
    /\ Len(outFile) < FileCap
    /\ LET current_batch == CurrentBatch(batch_size, remaining)
       IN  \/ /\ ~BatchRaises(current_batch)
              /\ \E b \in BatchesOf(CurrentGlobals, current_batch) :
                    outFile' = outFile \o WrittenLines(b)
              /\ remaining' = remaining - current_batch
              /\ UNCHANGED gpc
           \/ /\ BatchRaises(current_batch)
              /\ gpc' = "raised"
              /\ UNCHANGED <<remaining, outFile>>
    /\ UNCHANGED <<op, total, batch_size, gen, batches, gnext, oldFile>>
    /\ UNCHANGED <<samplerVars, cacheVars, loadVars, globalVars>>

\* the first loop ends, the file is closed, and line 246 creates the generator
ToFileWriteDone ==
    /\ gpc = "write_loop"
    /\ remaining <= 0
    /\ gpc' = "append_loop"
    /\ gen' = NewGenerator(total, batch_size)
    /\ UNCHANGED <<op, total, batch_size, remaining, outFile, batches, gnext, oldFile>>
    /\ UNCHANGED <<samplerVars, cacheVars, loadVars, globalVars>>

\* lines 246-248: the generator yields a batch, which is appended to the
\* file.  (No batch raises here: the first loop generated the same sizes.)
ToFileAppendBatch ==
    /\ gpc = "append_loop"
    /\ \E b \in BatchesOf(CurrentGlobals, CurrentBatch(gen.batch_size, GenRemaining)) :
          /\ GenYields(b)
          /\ outFile' = OpenAppend(outFile) \o WrittenLines(b)
    /\ UNCHANGED <<op, gpc, total, batch_size, remaining, batches, gnext, dataFile, oldFile>>
    /\ UNCHANGED <<samplerVars, cacheVars, loadVars>>

\* the generator is exhausted and generate_names_to_file returns
ToFileReturn ==
    /\ gpc = "append_loop"
    /\ GenStops
    /\ gpc' = "done"
    /\ UNCHANGED <<op, total, batch_size, remaining, outFile, batches, gnext, dataFile, oldFile>>
    /\ UNCHANGED <<samplerVars, cacheVars, loadVars>>

\* the lists the script's load_names() leaves (src/generate_names.py, 27-47)
ScriptGlobals ==
    Globals(ReadNames(dataFile["first:male"]) \o ReadNames(dataFile["first:female"]),
            ReadNames(dataFile["last"]), TRUE)

\* src/generate_names.py, lines 60-75: the script's generate_names(tot, bs)
\* creates the empty output file; the script runs only if its load_names()
\* did not raise at import
ScriptCall(tot, bs) ==
    /\ gpc = "idle"
    /\ \A k \in FileKeys : ~ReadFails(dataFile[k])
    /\ op' = "script"
    /\ gpc' = "script_loop"
    /\ total' = tot
    /\ batch_size' = bs
    /\ remaining' = tot
    /\ outFile' = OpenWrite(outFile)
    /\ UNCHANGED <<gen, batches, gnext, oldFile>>
    /\ UNCHANGED <<samplerVars, cacheVars, loadVars, globalVars>>

\* src/generate_names.py, lines 77-87: one iteration, generate_name_batch
\* and save_names_to_file
ScriptBatch ==
    /\ gpc = "script_loop"
    /\ remaining > 0
    /\ Len(outFile) < FileCap
    /\ LET current_batch == CurrentBatch(batch_size, remaining)
       IN  \/ /\ \E b \in BatchesOf(ScriptGlobals, current_batch) :
                    outFile' = OpenAppend(outFile) \o WrittenLines(b)
              /\ remaining' = remaining - current_batch
              /\ UNCHANGED gpc
           \/ /\ \/ ChoiceFails(ScriptGlobals.first, current_batch)
                 \/ ChoiceFails(ScriptGlobals.last, current_batch)
              /\ gpc' = "raised"
              /\ UNCHANGED <<remaining, outFile>>
    /\ UNCHANGED <<op, total, batch_size, gen, batches, gnext, oldFile>>
    /\ UNCHANGED <<samplerVars, cacheVars, loadVars, globalVars>>

\* src/generate_names.py, lines 99-107: the loop ends and the script reports
ScriptDone ==
    /\ gpc = "script_loop"
    /\ remaining <= 0
    /\ gpc' = "done"
    /\ UNCHANGED <<op, total, batch_size, remaining, outFile, gen, batches, gnext, oldFile>>
    /\ UNCHANGED <<samplerVars, cacheVars, loadVars, globalVars>>

GenerateNext ==
    \/ \E k \in FileKeys : DataFileRestored(k)
    \/ \E tot \in 0..MaxTotal, bs \in 0..MaxBatch :
          \/ GenCreate(tot, bs)
          \/ ToFileCall(tot, bs)
          \/ ScriptCall(tot, bs)
    \/ GenNext
    \/ ToFileWriteBatch
    \/ ToFileWriteDone
    \/ ToFileAppendBatch
    \/ ToFileReturn
    \/ ScriptBatch
    \/ ScriptDone

SpecGen == GenInit /\ [][GenerateNext]_vars

(***************************************************************************)
(* Claims about generation and writing (checked under SpecGen).            *)
(***************************************************************************)
\* C1: with batch_size >= 1, when generate_names_to_file(total, ...) returns
\* the output file holds exactly total lines.
C1_ExactlyTotalLines ==
    (op = "generate_names_to_file" /\ gpc = "done" /\ batch_size >= 1)
        => Len(outFile) = total

\* the sizes of the batches yielded so far
YieldedSizes == [i \in 1..Len(batches) |-> Len(batches[i])]

\* ceil(tot / bs) batches, each of bs names but the last, summing to tot
ExpectedSizes(tot, bs) ==
    LET n == (tot + bs - 1) \div bs
    IN  [i \in 1..n |-> IF i < n THEN bs ELSE tot - (n - 1) * bs]

IsPrefix(a, b) == Len(a) <= Len(b) /\ \A i \in 1..Len(a) : a[i] = b[i]

\* the lists are loaded and np.random.choice has something to draw from
CanGenerate == _LOADED /\ FIRST_NAMES # <<>> /\ LAST_NAMES # <<>>

\* C2: with batch_size >= 1 the generator yields, in order, batches of
\* min(batch_size, remaining) names: at every moment the sizes yielded are
\* the first of the ceil(total / batch_size) expected ones, and they are all
\* of them once the generator is exhausted (when the names can be
\* generated); none for total = 0, one of size total for batch_size > total.
C2_BatchSizes ==
    (op = "generate_names" /\ batch_size >= 1) =>
        /\ IsPrefix(YieldedSizes, ExpectedSizes(total, batch_size))
        /\ (gen.state = "done" /\ (total = 0 \/ CanGenerate))
              => /\ YieldedSizes = ExpectedSizes(total, batch_size)
                 /\ total = 0 => batches = <<>>
                 /\ (batch_size > total /\ total > 0) => YieldedSizes = <<total>>

\* the spec's scenario: total = 5, batch_size = 2 yields sizes [2, 2, 1]
C2_Witness ==
    /\ op = "generate_names"
    /\ total = 5
    /\ batch_size = 2
    /\ gen.state = "done"
    /\ YieldedSizes = <<2, 2, 1>>

\* C7: generate_names_to_file starts the file fresh: from the moment it has
\* opened the file, and when it returns, every line of the file was written
\* by this call (the script's generate_names, which creates the file empty
\* and appends, does the same); with total = 0 it leaves a file of zero
\* lines and raises nothing (the names being loaded).
C7_FileStartsFresh ==
    /\ (op \in {"generate_names_to_file", "script"}
          /\ gpc \in {"write_loop", "append_loop", "script_loop", "done"})
          => \A i \in 1..Len(outFile) : outFile[i].call = 1
    /\ op = "generate_names_to_file" =>
          /\ (gpc = "done" /\ total = 0) => outFile = <<>>
          /\ (gpc = "raised" /\ total = 0) => ~_LOADED

\* a call with total = 0 on a file that held lines has returned
C7_Witness ==
    /\ op = "generate_names_to_file"
    /\ gpc = "done"
    /\ total = 0
    /\ oldFile # <<>>
    /\ outFile = <<>>

\* C8: with total and batch_size non-negative, every batch produced by the
\* write loop of generate_names_to_file and by the generator strictly
\* decreases the remaining counter, which never goes below 0.
C8_RemainingDecreases ==
    [][ /\ (gpc = "write_loop" /\ outFile' # outFile)
            => (remaining' < remaining /\ remaining' >= 0)
        /\ (gen.state = "suspended" /\ gen' # gen)
            => (gen'.remaining < gen.remaining /\ gen'.remaining >= 0)
      ]_vars

\* some data file cannot be read, or holds a line with no field
SomeFileUnloadable ==
    \E k \in FileKeys :
        \/ ~dataFile[k].readable
        \/ \E i \in 1..Len(dataFile[k].lines) : Len(dataFile[k].lines[i]) = 0

\* C9: a failed load leaves FIRST_NAMES, LAST_NAMES and _LOADED as they were
\* (no list is filled while _LOADED is false); generate_names_to_file called
\* when the names are not loaded and a file cannot be loaded raises and
\* changes neither the globals nor the output file, and generates nothing;
\* it goes on to open the file only with the names loaded, in full.
C9_LoadFailureIsFatal ==
    /\ [](~_LOADED => (FIRST_NAMES = <<>> /\ LAST_NAMES = <<>>))
    /\ []((op = "generate_names_to_file" /\ gpc = "raised" /\ ~_LOADED)
              => outFile = oldFile)
    /\ []((op = "generate_names_to_file"
              /\ gpc \in {"write_loop", "append_loop", "done"})
              => /\ _LOADED
                 /\ FIRST_NAMES = ReadNames(dataFile["first:male"])
                                      \o ReadNames(dataFile["first:female"])
                 /\ LAST_NAMES = ReadNames(dataFile["last"]))
    /\ [][(gpc = "idle" /\ op' = "generate_names_to_file"
              /\ ~_LOADED /\ SomeFileUnloadable)
              => /\ gpc' = "raised"
                 /\ UNCHANGED <<FIRST_NAMES, LAST_NAMES, _LOADED, outFile, batches>>
          ]_vars

\* the import could not load the last-name file, and the call raised and
\* left the lines the file held
C9_Witness ==
    /\ op = "generate_names_to_file"
    /\ gpc = "raised"
    /\ ~_LOADED
    /\ ~ReadFails(dataFile["first:male"])
    /\ ~ReadFails(dataFile["first:female"])
    /\ ReadFails(dataFile["last"])
    /\ oldFile # <<>>
    /\ outFile = oldFile

(***************************************************************************)
(* Threads calling get_first_name, get_last_name, get_full_name,           *)
(* generate_names_batch and _load_all_names.                               *)
(***************************************************************************)
Operations == {"get_first_name", "get_last_name", "get_full_name",
               "generate_names_batch", "_load_all_names"}

\* a thread has not sampled the list
NotRead == <<"not read">>

\* the outcomes of an operation
Ok == "ok"
Raised == "raised"

\* the first test of an operation (lines 111, 121, 134 and 192) sends it to
\* _load_all_names
FirstTestLoads(o) ==
    CASE o = "get_first_name" -> FIRST_NAMES = <<>>
      [] o = "get_last_name" -> LAST_NAMES = <<>>
      [] o = "get_full_name" -> FIRST_NAMES = <<>>
      [] o = "generate_names_batch" -> ~_LOADED
      [] o = "_load_all_names" -> TRUE

\* the operations that sample FIRST_NAMES, and LAST_NAMES
SamplesFirst(o) == o \in {"get_first_name", "get_full_name", "generate_names_batch"}
SamplesLast(o) == o \in {"get_last_name", "get_full_name", "generate_names_batch"}

\* a check of _LOADED that never sees it set
LoadedInsideLockStale == FALSE

\* line 153: _LOADED as read again with the lock held
LoadedInsideLock == _LOADED

LoadInit ==
    /\ SamplerIdle
    /\ CacheIdle
    /\ GenIdle
    /\ GlobalsInit
    /\ lockOwner = "free"
    /\ tpc = [t \in Threads |-> "idle"]
    /\ top = [t \in Threads |-> "_load_all_names"]
    /\ male_names = [t \in Threads |-> <<>>]
    /\ female_names = [t \in Threads |-> <<>>]
    /\ seen = [t \in Threads |-> [first |-> NotRead, last |-> NotRead]]
    /\ tret = [t \in Threads |-> Ok]
    /\ tcalls = [t \in Threads |-> 0]
    /\ loads = 0

\* where a thread goes when _load_all_names returns
AfterLoad(t) ==
    IF top[t] = "_load_all_names" THEN "idle"
    ELSE IF SamplesFirst(top[t]) THEN "sample_first" ELSE "sample_last"

LoadFrame == UNCHANGED <<samplerVars, cacheVars, genVars>>

\* thread t calls operation o, which makes its first test
Call(t, o) ==
    /\ tpc[t] = "idle"
    /\ tcalls[t] < MaxOps
    /\ tcalls' = [tcalls EXCEPT ![t] = @ + 1]
    /\ top' = [top EXCEPT ![t] = o]
    /\ seen' = [seen EXCEPT ![t] = [first |-> NotRead, last |-> NotRead]]
    /\ tpc' = [tpc EXCEPT ![t] =
                 IF FirstTestLoads(o) THEN "load"
                 ELSE IF o = "get_full_name" THEN "test_last"
                 ELSE IF SamplesFirst(o) THEN "sample_first" ELSE "sample_last"]
    /\ UNCHANGED <<lockOwner, male_names, female_names, tret, loads, globalVars>>
    /\ LoadFrame

\* line 134, "or not LAST_NAMES": the second test of get_full_name
TestLast(t) ==
    /\ tpc[t] = "test_last"
    /\ tpc' = [tpc EXCEPT ![t] = IF LAST_NAMES = <<>> THEN "load" ELSE "sample_first"]
    /\ UNCHANGED <<lockOwner, top, male_names, female_names, seen, tret, tcalls, loads,
                   globalVars>>
    /\ LoadFrame

\* lines 149-150: the check of _LOADED without the lock
CheckLoaded(t) ==
    /\ tpc[t] = "load"
    /\ tpc' = [tpc EXCEPT ![t] = IF _LOADED THEN AfterLoad(t) ELSE "acquire"]
    /\ tret' = [tret EXCEPT ![t] = Ok]
    /\ UNCHANGED <<lockOwner, top, male_names, female_names, seen, tcalls, loads,
                   globalVars>>
    /\ LoadFrame

\* line 152: with _LOCK, which waits until no other thread holds the lock
Acquire(t) ==
    /\ tpc[t] = "acquire"
    /\ lockOwner = "free"
    /\ lockOwner' = t
    /\ tpc' = [tpc EXCEPT ![t] = "recheck"]
    /\ UNCHANGED <<top, male_names, female_names, seen, tret, tcalls, loads, globalVars>>
    /\ LoadFrame

\* lines 153-154: the check of _LOADED with the lock held; returning
\* releases the lock
Recheck(t) ==
    /\ tpc[t] = "recheck"
    /\ \/ /\ LoadedInsideLock
          /\ lockOwner' = "free"
          /\ tpc' = [tpc EXCEPT ![t] = AfterLoad(t)]
       \/ /\ ~LoadedInsideLock
          /\ tpc' = [tpc EXCEPT ![t] = "read_male"]
          /\ UNCHANGED lockOwner
    /\ UNCHANGED <<top, male_names, female_names, seen, tret, tcalls, loads, globalVars>>
    /\ LoadFrame

\* lines 173-174: the body raised: the lock is released and the operation
\* raises RuntimeError
LoadRaises(t) ==
    /\ lockOwner' = "free"
    /\ tpc' = [tpc EXCEPT ![t] = "idle"]
    /\ tret' = [tret EXCEPT ![t] = Raised]

\* lines 158-159
ReadMale(t) ==
    /\ tpc[t] = "read_male"
    /\ \/ /\ ReadFails(dataFile["first:male"])
          /\ LoadRaises(t)
          /\ UNCHANGED male_names
       \/ /\ ~ReadFails(dataFile["first:male"])
          /\ male_names' = [male_names EXCEPT ![t] = ReadNames(dataFile["first:male"])]
          /\ tpc' = [tpc EXCEPT ![t] = "read_female"]
          /\ UNCHANGED <<lockOwner, tret>>
    /\ UNCHANGED <<top, female_names, seen, tcalls, loads, globalVars>>
    /\ LoadFrame

\* lines 162-163
ReadFemale(t) ==
    /\ tpc[t] = "read_female"
    /\ \/ /\ ReadFails(dataFile["first:female"])
          /\ LoadRaises(t)
          /\ UNCHANGED female_names
       \/ /\ ~ReadFails(dataFile["first:female"])
          /\ female_names' = [female_names EXCEPT ![t] =
                                 ReadNames(dataFile["first:female"])]
          /\ tpc' = [tpc EXCEPT ![t] = "read_last"]
          /\ UNCHANGED <<lockOwner, tret>>
    /\ UNCHANGED <<top, male_names, seen, tcalls, loads, globalVars>>
    /\ LoadFrame

\* lines 166-167: LAST_NAMES[:] = [...]
ReadLast(t) ==
    /\ tpc[t] = "read_last"
    /\ \/ /\ ReadFails(dataFile["last"])
          /\ LoadRaises(t)
          /\ UNCHANGED LAST_NAMES
       \/ /\ ~ReadFails(dataFile["last"])
          /\ LAST_NAMES' = ReadNames(dataFile["last"])
          /\ tpc' = [tpc EXCEPT ![t] = "assign_first"]
          /\ UNCHANGED <<lockOwner, tret>>
    /\ UNCHANGED <<top, male_names, female_names, seen, tcalls, loads, dataFile,
                   FIRST_NAMES, _LOADED>>
    /\ LoadFrame

\* line 170: FIRST_NAMES[:] = male_names + female_names
AssignFirst(t) ==
    /\ tpc[t] = "assign_first"
    /\ FIRST_NAMES' = male_names[t] \o female_names[t]
    /\ tpc' = [tpc EXCEPT ![t] = "set_loaded"]
    /\ UNCHANGED <<lockOwner, top, male_names, female_names, seen, tret, tcalls, loads,
                   dataFile, LAST_NAMES, _LOADED>>
    /\ LoadFrame

\* line 171: _LOADED = True
SetLoaded(t) ==
    /\ tpc[t] = "set_loaded"
    /\ _LOADED' = TRUE
    /\ loads' = loads + 1
    /\ tpc' = [tpc EXCEPT ![t] = "release"]
    /\ UNCHANGED <<lockOwner, top, male_names, female_names, seen, tret, tcalls,
                   dataFile, FIRST_NAMES, LAST_NAMES>>
    /\ LoadFrame

\* the with block ends: the lock is released and _load_all_names returns
Release(t) ==
    /\ tpc[t] = "release"
    /\ lockOwner' = "free"
    /\ tpc' = [tpc EXCEPT ![t] = AfterLoad(t)]
    /\ UNCHANGED <<top, male_names, female_names, seen, tret, tcalls, loads, globalVars>>
    /\ LoadFrame

\* random.choice(FIRST_NAMES), np.random.choice(FIRST_NAMES, ...): both
\* raise on an empty list
SampleFirst(t) ==
    /\ tpc[t] = "sample_first"
    /\ seen' = [seen EXCEPT ![t].first = FIRST_NAMES]
    /\ \/ /\ FIRST_NAMES = <<>>
          /\ tpc' = [tpc EXCEPT ![t] = "idle"]
          /\ tret' = [tret EXCEPT ![t] = Raised]
       \/ /\ FIRST_NAMES # <<>>
          /\ tpc' = [tpc EXCEPT ![t] = IF SamplesLast(top[t]) THEN "sample_last" ELSE "idle"]
          /\ tret' = [tret EXCEPT ![t] = Ok]
    /\ UNCHANGED <<lockOwner, top, male_names, female_names, tcalls, loads, globalVars>>
    /\ LoadFrame

\* random.choice(LAST_NAMES), np.random.choice(LAST_NAMES, ...)
SampleLast(t) ==
    /\ tpc[t] = "sample_last"
    /\ seen' = [seen EXCEPT ![t].last = LAST_NAMES]
    /\ tpc' = [tpc EXCEPT ![t] = "idle"]
    /\ tret' = [tret EXCEPT ![t] = IF LAST_NAMES = <<>> THEN Raised ELSE Ok]
    /\ UNCHANGED <<lockOwner, top, male_names, female_names, tcalls, loads, globalVars>>
    /\ LoadFrame

LoadNext ==
    \/ \E k \in FileKeys : DataFileRestored(k)
    \/ \E t \in Threads :
          \/ \E o \in Operations : Call(t, o)
          \/ TestLast(t)
          \/ CheckLoaded(t)
          \/ Acquire(t)
          \/ Recheck(t)
          \/ ReadMale(t)
          \/ ReadFemale(t)
          \/ ReadLast(t)
          \/ AssignFirst(t)
          \/ SetLoaded(t)
          \/ Release(t)
          \/ SampleFirst(t)
          \/ SampleLast(t)

SpecLoad == LoadInit /\ [][LoadNext]_vars

(***************************************************************************)
(* Claims about concurrent loading (checked under SpecLoad).               *)
(***************************************************************************)
\* the lists as the data files give them, once every file loads
FilesLoad == \A k \in FileKeys : ~ReadFails(dataFile[k])
FullFirst == ReadNames(dataFile["first:male"]) \o ReadNames(dataFile["first:female"])
FullLast == ReadNames(dataFile["last"])

\* C10: under any interleaving the loading body runs to success at most
\* once; _LOADED implies that both lists hold their complete contents; a
\* thread only ever samples from a list holding its complete contents; and
\* once _LOADED is true nothing changes FIRST_NAMES, LAST_NAMES or _LOADED.
C10_LazyLoadRaceFree ==
    /\ [](loads <= 1)
    /\ [](_LOADED => (FilesLoad /\ FIRST_NAMES = FullFirst /\ LAST_NAMES = FullLast))
    /\ [](\A t \in Threads :
             /\ seen[t].first # NotRead => (FilesLoad /\ seen[t].first = FullFirst)
             /\ seen[t].last # NotRead => (FilesLoad /\ seen[t].last = FullLast))
    /\ [][_LOADED => UNCHANGED <<FIRST_NAMES, LAST_NAMES, _LOADED>>]_vars

\* one thread is in the middle of the body, LAST_NAMES filled and
\* FIRST_NAMES not yet, while the other has sampled LAST_NAMES and a third
\* operation waits for the lock
C10_Witness ==
    /\ tpc["t1"] = "assign_first"
    /\ LAST_NAMES # <<>>
    /\ FIRST_NAMES = <<>>
    /\ male_names["t1"] # <<>>
    /\ tpc["t2"] = "acquire"
    /\ top["t2"] = "get_full_name"

====
